---- MODULE Spec2Model ----
(***************************************************************************)
(* Model of midbel/cli: the sub-command dispatcher (Run, RunAndExit,        *)
(* tryDefault, SuggestError.Similar) and the rotating MultiSize counter.    *)
(*                                                                          *)
(* Go strings are sequences of one-character strings, so that               *)
(* Command.String, the flag parser and the edit distance work on the        *)
(* characters as the code does.  An error message is a sequence of text     *)
(* segments; strings.HasPrefix on a message is a test of the segments.      *)
(***************************************************************************)
EXTENDS Integers, Sequences, FiniteSets, TLC

VARIABLES
    pc,         \* position of the process: start, returned, exited, panicked
    entry,      \* the entry point that was called: Run, RunAndExit, Similar
    cs,         \* the registry passed to the entry point ([]*Command)
    osArgs,     \* os.Args[1:]
    cmdLine,    \* flag.CommandLine.Args() (the global flag set of package flag)
    usageCalls, \* number of calls of the usage callback
    runCalls,   \* calls of run functions: [cmd |-> index in cs, args |-> tokens,
                \* err |-> the error the function returned]
    helpWired,  \* indexes of the commands whose Flag.Usage was set to Help
    ret,        \* the error Run returned (Nil for success)
    stdout,     \* lines written to os.Stdout
    stderr,     \* lines written to os.Stderr
    exitCode,   \* code given to os.Exit, NoCode while the process lives
    similar,    \* the list the last SuggestError.Similar call returned
    sizes,      \* MultiSize.sizes, each Size in eighths of a byte
    alea,       \* MultiSize.Alea
    curr,       \* MultiSize.curr, a uint32 as two 16-bit halves [hi, lo]
    start0,     \* value of curr before the first call (history variable)
    hist,       \* completed calls of Next/Int/Float in order (history variable)
    tpc,        \* per thread: position inside Next
    tix,        \* per thread: ix, the value atomic.AddUint32 returned
    seen,       \* per thread: the counter values its calls observed
    got,        \* per thread: the elements its calls returned
    size,       \* the Size that Set is called on, a float64 as [m, e]
    setCall     \* the calls of Size.Set in order: [text, old, new, err], the
                \* argument, the Size before and after, the error returned

cliVars == <<pc, entry, cs, osArgs, cmdLine, usageCalls, runCalls,
             helpWired, ret, stdout, stderr, exitCode, similar>>
sizeVars == <<sizes, alea, curr, start0, hist, tpc, tix, seen, got>>
setVars == <<size, setCall>>
vars == <<cliVars, sizeVars, setVars>>

----------------------------------------------------------------------------
(* Bounds of the model. *)
MaxCmds == 3
MaxArgs == 2
MaxSizes == 3
MaxCalls == 4
NThreads == 2
CallsPerThread == 2
MaxSets == 2

----------------------------------------------------------------------------
(* Strings. *)
W_build == <<"b", "u", "i", "l", "d">>
W_buld == <<"b", "u", "l", "d">>
W_bundle == <<"b", "u", "n", "d", "l", "e">>
W_b == <<"b">>
W_push == <<"p", "u", "s", "h">>
W_doc == <<"d", "o", "c">>
W_help == <<"h", "e", "l", "p">>
W_h == <<"h">>
W_v == <<"v">>
W_version == <<"v", "e", "r", "s", "i", "o", "n">>

T_v == <<"-">> \o W_v
T_version == <<"-", "-">> \o W_version
T_x == <<"-", "x">>
T_vbad == <<"-", "v", "=", "z">>
T_voff == <<"-", "v", "=", "0">>
T_end == <<"-", "-">>

IndexOf(s, ch) ==
    IF \E i \in 1..Len(s) : s[i] = ch
    THEN CHOOSE i \in 1..Len(s) : s[i] = ch /\ \A j \in 1..(i - 1) : s[j] # ch
    ELSE 0

----------------------------------------------------------------------------
(* Errors.  An error is the chain errors.As walks, outermost first; Nil is   *)
(* the empty chain.  Layers: an *ExitError (its Err is the rest of the       *)
(* chain), a wrapping error of the application (Unwrap gives the rest), and  *)
(* the leaves SuggestError and a plain error.                                *)
Nil == <<>>
NoCode == 0 - 1
BadExitCode == 1
UsageExitCode == 2

Plain(msg) == <<[t |-> "plain", msg |-> msg, code |-> NoCode, cmd |-> <<>>]>>
Suggest(cmd) == <<[t |-> "suggest", msg |-> <<>>, code |-> NoCode, cmd |-> cmd]>>
Exit(err, code) == <<[t |-> "exit", msg |-> <<>>, code |-> code, cmd |-> <<>>]>> \o err
Wrap(msg, err) == <<[t |-> "wrap", msg |-> msg, code |-> NoCode, cmd |-> <<>>]>> \o err

\* errors.As(err, &target) for a target of the given type: the position of the
\* first layer of that type, 0 when there is none.
As(err, type) ==
    IF \E i \in 1..Len(err) : err[i].t = type
    THEN CHOOSE i \in 1..Len(err) :
            err[i].t = type /\ \A j \in 1..(i - 1) : err[j].t # type
    ELSE 0

ProgName == "prog"
NilText == <<"<nil>">>

RECURSIVE ErrorText(_)
\* err.Error(), as fmt.Fprintln prints it.
ErrorText(err) ==
    IF err = Nil THEN NilText
    ELSE CASE err[1].t = "plain" -> err[1].msg
           [] err[1].t = "wrap" -> err[1].msg
           [] err[1].t = "suggest" ->
                err[1].cmd \o <<": unknown sub-command. run ", ProgName, " help for usage">>
           [] err[1].t = "exit" -> ErrorText(Tail(err))

HasPrefix(msg, prefix) == Len(msg) > 0 /\ msg[1] = prefix

----------------------------------------------------------------------------
(* Command. *)

\* c.String(): the usage string up to its first space.
String(c) ==
    LET ix == IndexOf(c.Usage, " ") IN
    IF ix = 0 THEN c.Usage ELSE SubSeq(c.Usage, 1, ix - 1)

\* c.Runnable(): c.Run != nil.
Runnable(c) == c.Run

Command(usage, alias, default, run) ==
    [Usage |-> usage, Alias |-> alias, Default |-> default, Run |-> run]

\* The commands the registries of the model are made of.
CmdBuild == Command(W_build \o <<" ", "x">>, <<W_b>>, FALSE, TRUE)
CmdPush == Command(W_push, <<W_b>>, TRUE, TRUE)
CmdVersion == Command(W_version \o <<" ", "x">>, <<W_help>>, FALSE, TRUE)
CmdDoc == Command(W_doc, <<>>, TRUE, FALSE)
CommandPool == {CmdBuild, CmdPush, CmdVersion, CmdDoc}

Injective(q) == \A i, j \in 1..Len(q) : i # j => q[i] # q[j]
SeqsUpTo(S, n) == UNION {[1..k -> S] : k \in 0..n}
Registries == {r \in SeqsUpTo(CommandPool, MaxCmds) : Injective(r)}

Tokens == {W_build, W_b, W_help, W_version, W_buld, W_doc,
           T_v, T_version, T_voff, T_x, T_vbad, T_end}
ArgLists == SeqsUpTo(Tokens, MaxArgs)

----------------------------------------------------------------------------
(* Package flag, as Run uses it: FlagSet.Parse with ContinueOnError and the  *)
(* boolean flags in `formal`.                                                *)
BoolTrue == {<<"1">>, <<"t">>, <<"T">>, <<"t", "r", "u", "e">>,
             <<"T", "R", "U", "E">>, <<"T", "r", "u", "e">>}
BoolFalse == {<<"0">>, <<"f">>, <<"F">>, <<"f", "a", "l", "s", "e">>,
              <<"F", "A", "L", "S", "E">>, <<"F", "a", "l", "s", "e">>}

ErrHelp == <<"flag: help requested">>
ErrUndefinedPrefix == "flag provided but not defined"

\* FlagSet.parseOne on the first of args: [seen, err, args, on] where `on` is
\* the name of the flag it set and `val` the value.
ParseOne(args, formal) ==
    LET s == args[1]
        stop == [seen |-> FALSE, err |-> <<>>, args |-> args, on |-> <<>>, val |-> FALSE]
    IN
    IF Len(s) < 2 \/ s[1] # "-" THEN stop
    ELSE
      LET numMinuses == IF s[2] = "-" THEN 2 ELSE 1 IN
      IF numMinuses = 2 /\ Len(s) = 2 THEN [stop EXCEPT !.args = Tail(args)]
      ELSE
        LET full == SubSeq(s, numMinuses + 1, Len(s)) IN
        IF Len(full) = 0 \/ full[1] = "-" \/ full[1] = "="
        THEN [stop EXCEPT !.err = <<"bad flag syntax", ": ">> \o s]
        ELSE
          LET eq == IndexOf(Tail(full), "=")
              hasValue == eq > 0
              name == IF hasValue THEN SubSeq(full, 1, eq) ELSE full
              value == IF hasValue THEN SubSeq(full, eq + 2, Len(full)) ELSE <<>>
          IN
          IF name \notin formal
          THEN IF name = W_help \/ name = W_h
               THEN [stop EXCEPT !.err = ErrHelp, !.args = Tail(args)]
               ELSE [stop EXCEPT !.err = <<ErrUndefinedPrefix, ": -">> \o name,
                                 !.args = Tail(args)]
          ELSE IF hasValue /\ value \notin BoolTrue \cup BoolFalse
               THEN [stop EXCEPT !.err = <<"invalid boolean value", " ">> \o value,
                                 !.args = Tail(args)]
               ELSE [seen |-> TRUE, err |-> <<>>, args |-> Tail(args), on |-> name,
                     val |-> (~hasValue \/ value \in BoolTrue)]

RECURSIVE ParseFrom(_, _, _)
\* The loop of FlagSet.Parse: [err, args, flags] with flags the set of the
\* boolean flags left true.
ParseFrom(args, formal, flags) ==
    IF args = <<>> THEN [err |-> <<>>, args |-> args, flags |-> flags]
    ELSE
      LET one == ParseOne(args, formal) IN
      IF one.seen
      THEN ParseFrom(one.args, formal,
                     IF one.val THEN flags \cup {one.on} ELSE flags \ {one.on})
      ELSE [err |-> one.err, args |-> one.args, flags |-> flags]

Parse(args, formal) == ParseFrom(args, formal, {})

\* What flag.CommandLine holds when Run starts: nothing when the application
\* never called flag.Parse(), else the positional tokens that call left (the
\* global set defines no flag and exits the process on a parse failure).
CommandLineStates(args) ==
    {<<>>} \cup (IF Parse(args, {}).err = <<>> THEN {Parse(args, {}).args} ELSE {})

----------------------------------------------------------------------------
(* Run.  An outcome is what a call leaves behind: where the process is, the  *)
(* error returned, the exit code, and what was called and printed.           *)
Range(q) == {q[i] : i \in 1..Len(q)}

Outcome(at, err, code, ucalls, calls, wired, out) ==
    [pc |-> at, ret |-> err, exitCode |-> code, usageCalls |-> ucalls,
     runCalls |-> calls, helpWired |-> wired, stdout |-> out,
     stderr |-> <<>>, similar |-> <<>>]

Returned(err, ucalls, calls, wired, out) ==
    Outcome("returned", err, NoCode, ucalls, calls, wired, out)

\* The usage callback was called and, as the one Usage() builds does, ended
\* the process with os.Exit(2).
ExitedInUsage(ucalls) == Outcome("exited", Nil, UsageExitCode, ucalls, <<>>, {}, <<>>)

\* c.Run(c, args) for the command at index i: a nil function panics.
Invoke(registry, i, args, runErr, ucalls) ==
    IF Runnable(registry[i])
    THEN Returned(runErr, ucalls, <<[cmd |-> i, args |-> args, err |-> runErr]>>,
                  {i}, <<>>)
    ELSE Outcome("panicked", Nil, NoCode, ucalls, <<>>, {i}, <<>>)

\* tryDefault(cs): the first command flagged Default, called with os.Args[1:].
tryDefault(registry, args, runErr, ucalls) ==
    LET defaults == {i \in 1..Len(registry) : registry[i].Default} IN
    IF defaults # {}
    THEN Invoke(registry, CHOOSE i \in defaults : \A j \in defaults : i <= j,
                args, runErr, ucalls)
    ELSE Returned(Plain(<<"no sub-command given!">>), ucalls, <<>>, {}, <<>>)

RECURSIVE CommandSetNoAlias(_, _)
\* Mutant of CommandSet: the aliases are not entered.
CommandSetNoAlias(registry, k) ==
    IF k = 0 THEN [key \in {} |-> 0]
    ELSE
      LET prev == CommandSetNoAlias(registry, k - 1)
          c == registry[k]
      IN
      IF ~Runnable(c) THEN prev
      ELSE [key \in DOMAIN prev \cup {String(c)} |->
                IF key = String(c) THEN k ELSE prev[key]]

RECURSIVE CommandSet(_, _)
\* The map Run builds from the first k commands: every name and alias of a
\* runnable command to that command's index, a later entry replacing an
\* earlier one.
CommandSet(registry, k) ==
    IF k = 0 THEN [key \in {} |-> 0]
    ELSE
      LET prev == CommandSet(registry, k - 1)
          c == registry[k]
          keys == {String(c)} \cup Range(c.Alias)
      IN
      IF ~Runnable(c) THEN prev
      ELSE [key \in DOMAIN prev \cup keys |-> IF key \in keys THEN k ELSE prev[key]]

\* Mutant of Dispatch: an unmatched name falls back to the default command.
DispatchOrDefault(registry, rest, runErr, ucalls) ==
    LET set == CommandSet(registry, Len(registry)) IN
    IF rest[1] \in DOMAIN set /\ Runnable(registry[set[rest[1]]])
    THEN Invoke(registry, set[rest[1]], Tail(rest), runErr, ucalls)
    ELSE IF \E i \in 1..Len(registry) : registry[i].Default /\ Runnable(registry[i])
         THEN tryDefault(registry, rest, runErr, ucalls)
         ELSE Returned(Suggest(rest[1]), ucalls, <<>>, {}, <<>>)

\* Lines 124-139: look the first positional token up and run its command.
Dispatch(registry, rest, runErr, ucalls) ==
    LET set == CommandSet(registry, Len(registry)) IN
    IF rest[1] \in DOMAIN set /\ Runnable(registry[set[rest[1]]])
    THEN Invoke(registry, set[rest[1]], Tail(rest), runErr, ucalls)
    ELSE Returned(Suggest(rest[1]), ucalls, <<>>, {}, <<>>)

Version == ""
VersionLine == <<ProgName, "-", IF Version = "" THEN "unknown" ELSE Version,
                 " os/arch buildtime">>

GlobalFlags == {W_v, W_version}

\* Run(cs, usage), for the error runErr the run function it calls returns.
Run(registry, args, cl, uexits, runErr) ==
    LET p == Parse(args, GlobalFlags) IN
    IF p.err # <<>>
    THEN \* the flag set calls fset.Usage before it returns any parse error
         IF uexits THEN ExitedInUsage(1)
         ELSE IF ~HasPrefix(p.err, ErrUndefinedPrefix)
              THEN Returned(Plain(p.err), 1, <<>>, {}, <<>>)
              ELSE tryDefault(registry, args, runErr, 1)
    ELSE IF W_v \in p.flags \/ W_version \in p.flags
            \/ (Len(cl) > 0 /\ cl[1] = W_version)
         THEN Returned(Nil, 0, <<>>, {}, <<VersionLine>>)
         ELSE IF Len(p.args) = 0 \/ p.args[1] = W_help
              THEN IF uexits THEN ExitedInUsage(1)
                   ELSE Returned(Nil, 1, <<>>, {}, <<>>)
              ELSE Dispatch(registry, p.args, runErr, 0)

----------------------------------------------------------------------------
(* SuggestError.Similar and the edit distance of github.com/midbel/distance. *)
Min2(x, y) == IF x <= y THEN x ELSE y

RECURSIVE DistanceRow(_, _, _, _)
\* One row of the edit-distance table: cur[j + 1] is the distance between the
\* prefix of a ending in ch and the first j characters of b.
DistanceRow(prev, ch, b, cur) ==
    IF Len(cur) = Len(b) + 1 THEN cur
    ELSE
      LET j == Len(cur)
          subst == prev[j] + (IF b[j] = ch THEN 0 ELSE 1)
      IN
      DistanceRow(prev, ch, b,
                  Append(cur, Min2(subst, Min2(prev[j + 1] + 1, cur[j] + 1))))

RECURSIVE DistanceRows(_, _, _, _)
DistanceRows(a, b, i, prev) ==
    IF i > Len(a) THEN prev[Len(b) + 1]
    ELSE DistanceRows(a, b, i + 1, DistanceRow(prev, a[i], b, <<prev[1] + 1>>))

\* Unit-cost insert/delete/substitute distance.
EditDistance(a, b) == DistanceRows(a, b, 1, [j \in 1..(Len(b) + 1) |-> j - 1])

RECURSIVE InsertByDistance(_, _, _)
\* x put into the sorted list after every element that is not farther from str.
InsertByDistance(str, sorted, x) ==
    IF sorted = <<>> THEN <<x>>
    ELSE IF EditDistance(str, sorted[1]) <= EditDistance(str, x)
         THEN <<sorted[1]>> \o InsertByDistance(str, Tail(sorted), x)
         ELSE <<x>> \o sorted

RECURSIVE SortByDistance(_, _, _)
SortByDistance(str, list, k) ==
    IF k = 0 THEN <<>>
    ELSE InsertByDistance(str, SortByDistance(str, list, k - 1), list[k])

\* distance.Levenshtein(str, list): list ranked by distance to str, ties in
\* the order of list.
Levenshtein(str, list) == SortByDistance(str, list, Len(list))

RECURSIVE CandidatesUnfiltered(_, _, _)
\* Mutant of Candidates: the entries that cannot run are kept.
CandidatesUnfiltered(cmd, others, k) ==
    IF k = 0 THEN <<>>
    ELSE
      LET c == others[k] IN
      IF String(c) = cmd
      THEN CandidatesUnfiltered(cmd, others, k - 1)
      ELSE Append(CandidatesUnfiltered(cmd, others, k - 1), String(c))

RECURSIVE Candidates(_, _, _)
\* The loop of Similar over the first k commands.
Candidates(cmd, others, k) ==
    IF k = 0 THEN <<>>
    ELSE
      LET c == others[k] IN
      IF ~Runnable(c) \/ String(c) = cmd
      THEN Candidates(cmd, others, k - 1)
      ELSE Append(Candidates(cmd, others, k - 1), String(c))

\* e.Similar(others) for e = SuggestError{Cmd: cmd}.
Similar(cmd, others) == Levenshtein(cmd, Candidates(cmd, others, Len(others)))

----------------------------------------------------------------------------
(* RunAndExit. *)

\* Mutant of Translate: the exit error is looked for by value, as an earlier
\* revision did, and never found: every error ends with BadExitCode.
TranslateNoExit(o, registry) ==
    LET err == o.ret
        sg == As(err, "suggest")
        list == IF sg > 0 THEN Similar(err[sg].cmd, registry) ELSE <<>>
        hint == IF Len(list) > 0
                THEN <<<<"">>, <<"most similar commands are:">>>>
                     \o [i \in 1..Len(list) |-> <<" ", " ">> \o list[i]]
                ELSE <<>>
    IN
    [o EXCEPT !.pc = "exited", !.exitCode = BadExitCode, !.similar = list,
              !.stderr = <<ErrorText(err)>> \o hint]

\* Lines 73-92: the translation of a non-nil error of Run into the lines on
\* os.Stderr and the exit code.
Translate(o, registry) ==
    LET err == o.ret
        sg == As(err, "suggest")
        ex == As(err, "exit")
        list == IF sg > 0 THEN Similar(err[sg].cmd, registry) ELSE <<>>
        useExit == sg = 0 /\ ex > 0
        code == IF useExit THEN err[ex].code ELSE BadExitCode
        shown == IF useExit THEN SubSeq(err, ex + 1, Len(err)) ELSE err
        hint == IF Len(list) > 0
                THEN <<<<"">>, <<"most similar commands are:">>>>
                     \o [i \in 1..Len(list) |-> <<" ", " ">> \o list[i]]
                ELSE <<>>
    IN
    [o EXCEPT !.pc = "exited", !.exitCode = code, !.similar = list,
              !.stderr = <<ErrorText(shown)>> \o hint]

\* RunAndExit(cs, usage): returns to its caller when Run returns nil.
RunAndExit(registry, args, cl, uexits, runErr) ==
    LET o == Run(registry, args, cl, uexits, runErr) IN
    IF o.pc = "returned" /\ o.ret # Nil THEN Translate(o, registry) ELSE o

\* The errors a run function returns in the model: success, a plain error,
\* cli.Exit(err, 7), that exit error wrapped once more, and an exit error
\* around a suggestion error.
DiskFull == Plain(<<"disk full">>)
RunErrors == {Nil, Plain(<<"boom">>), Exit(DiskFull, 7),
              Wrap(<<"push: disk full">>, Exit(DiskFull, 7)),
              Exit(Suggest(W_buld), 3), Suggest(W_doc)}

----------------------------------------------------------------------------
(* The process. *)
\* No Size.Set call was made: the Size has its zero value.
SetIdle ==
    /\ size = [m |-> 0, e |-> 0]
    /\ setCall = <<>>

ThreadsIdle ==
    /\ tpc = <<>>
    /\ tix = <<>>
    /\ seen = <<>>
    /\ got = <<>>

SizeIdle ==
    /\ sizes = <<>>
    /\ alea = FALSE
    /\ curr = [hi |-> 0, lo |-> 0]
    /\ start0 = [hi |-> 0, lo |-> 0]
    /\ hist = <<>>
    /\ ThreadsIdle

Init ==
    /\ pc = "start"
    /\ entry = "none"
    /\ cs = <<>>
    /\ osArgs \in ArgLists
    /\ cmdLine \in CommandLineStates(osArgs)
    /\ usageCalls = 0
    /\ runCalls = <<>>
    /\ helpWired = {}
    /\ ret = Nil
    /\ stdout = <<>>
    /\ stderr = <<>>
    /\ exitCode = NoCode
    /\ similar = <<>>
    /\ SizeIdle
    /\ SetIdle

Leave(name, registry, o) ==
    /\ entry' = name
    /\ cs' = registry
    /\ pc' = o.pc
    /\ ret' = o.ret
    /\ exitCode' = o.exitCode
    /\ usageCalls' = o.usageCalls
    /\ runCalls' = o.runCalls
    /\ helpWired' = o.helpWired
    /\ stdout' = o.stdout
    /\ stderr' = o.stderr
    /\ similar' = o.similar
    /\ UNCHANGED <<osArgs, cmdLine, sizeVars, setVars>>

\* What the callbacks given to Run can do: the usage callback returns or
\* ends the process, the run function returns one of RunErrors.  The
\* behaviour of a callback that is never called does not show.
UsageModes(registry) ==
    IF Run(registry, osArgs, cmdLine, FALSE, Nil).usageCalls = 0
    THEN {FALSE} ELSE BOOLEAN
ErrorsOf(registry, uexits) ==
    IF Run(registry, osArgs, cmdLine, uexits, Nil).runCalls = <<>>
    THEN {Nil} ELSE RunErrors

\* The application calls cli.Run.
CallRun ==
    /\ pc = "start"
    /\ \E registry \in Registries :
        \E uexits \in UsageModes(registry) :
          \E runErr \in ErrorsOf(registry, uexits) :
            Leave("Run", registry, Run(registry, osArgs, cmdLine, uexits, runErr))

\* The application calls cli.RunAndExit.
CallRunAndExit ==
    /\ pc = "start"
    /\ \E registry \in Registries :
        \E uexits \in UsageModes(registry) :
          \E runErr \in ErrorsOf(registry, uexits) :
            Leave("RunAndExit", registry,
                  RunAndExit(registry, osArgs, cmdLine, uexits, runErr))

Next == CallRun \/ CallRunAndExit

Spec == Init /\ [][Next]_vars

\* The application calls Similar on a SuggestError of its own.
CallSimilar ==
    /\ pc = "start"
    /\ \E registry \in Registries, cmd \in Tokens :
          Leave("Similar", registry,
                [Returned(Suggest(cmd), 0, <<>>, {}, <<>>)
                    EXCEPT !.similar = Similar(cmd, registry)])

InitSimilar == Init /\ osArgs = <<>> /\ cmdLine = <<>>
NextSimilar == CallSimilar
SpecSimilar == InitSimilar /\ [][NextSimilar]_vars

----------------------------------------------------------------------------
(* Size and MultiSize.  A Size is a float64 of bytes; the model counts in    *)
(* eighths of a byte, the unit of the smallest size Set yields (1b).  The    *)
(* uint32 counter is kept as two 16-bit halves so that its wrap at 2^32 is   *)
(* that of the code.                                                         *)
Half == 65536

\* atomic.AddUint32(&m.curr, 1): the new value.
AddUint32(c) ==
    IF c.lo = Half - 1
    THEN [hi |-> (c.hi + 1) % Half, lo |-> 0]
    ELSE [hi |-> c.hi, lo |-> c.lo + 1]

\* ix % uint32(n) for the counter value ix = hi * 2^16 + lo.
Mod32(ix, n) == (((ix.hi % n) * (Half % n)) + (ix.lo % n)) % n

\* s.Int(): int64(float64) truncates toward zero.
SizeInt(s) == IF s >= 0 THEN s \div 8 ELSE 0 - ((0 - s) \div 8)

\* Mutant of Next: the index is taken from the counter before the increment.
NextStale(list, c) ==
    [curr |-> AddUint32(c), ix |-> AddUint32(c), ok |-> Len(list) > 0,
     idx |-> IF Len(list) > 0 THEN Mod32(c, Len(list)) ELSE 0]

\* m.Next(): the counter after the call, the value ix the increment gave and
\* the index of the element returned; with no element the modulo by zero
\* panics, after the increment.
MultiSizeNext(list, c) ==
    [curr |-> AddUint32(c), ix |-> AddUint32(c), ok |-> Len(list) > 0,
     idx |-> IF Len(list) > 0 THEN Mod32(AddUint32(c), Len(list)) ELSE 0]

\* The sizes of the model: 1b, 1B and 2.5B, in eighths of a byte.
SizePool == {1, 8, 20}
SizeLists == SeqsUpTo(SizePool, MaxSizes)
Counter(hi, lo) == [hi |-> hi, lo |-> lo]
CounterStarts == {Counter(0, 0), Counter(0, Half - 2), Counter(Half - 1, Half - 2)}

CliIdle ==
    /\ pc = "start"
    /\ entry = "none"
    /\ cs = <<>>
    /\ osArgs = <<>>
    /\ cmdLine = <<>>
    /\ usageCalls = 0
    /\ runCalls = <<>>
    /\ helpWired = {}
    /\ ret = Nil
    /\ stdout = <<>>
    /\ stderr = <<>>
    /\ exitCode = NoCode
    /\ similar = <<>>

InitSize ==
    /\ CliIdle
    /\ SetIdle
    /\ sizes \in SizeLists
    /\ alea \in BOOLEAN
    /\ curr \in CounterStarts
    /\ start0 = curr
    /\ hist = <<>>
    /\ ThreadsIdle

Called(op, n, out) ==
    [op |-> op, ix |-> n.ix, idx |-> n.idx, val |-> sizes[n.idx + 1], out |-> out]

\* One goroutine calls m.Next().
CallNext ==
    /\ pc = "start" /\ Len(hist) < MaxCalls
    /\ LET n == MultiSizeNext(sizes, curr) IN
       /\ curr' = n.curr
       /\ entry' = "Next"
       /\ IF n.ok
          THEN hist' = Append(hist, Called("Next", n, sizes[n.idx + 1])) /\ pc' = pc
          ELSE hist' = hist /\ pc' = "panicked"
    /\ UNCHANGED <<cs, osArgs, cmdLine, usageCalls, runCalls, helpWired, ret,
                   stdout, stderr, exitCode, similar>>
    /\ UNCHANGED <<sizes, alea, start0, tpc, tix, seen, got, setVars>>

\* One goroutine calls m.Int(): rand.Int63n(n) panics unless n > 0.
CallInt ==
    /\ pc = "start" /\ Len(hist) < MaxCalls
    /\ LET n == MultiSizeNext(sizes, curr)
           v == IF n.ok THEN SizeInt(sizes[n.idx + 1]) ELSE 0
       IN
       /\ curr' = n.curr
       /\ entry' = "Int"
       /\ IF ~n.ok \/ (alea /\ v <= 0)
          THEN hist' = hist /\ pc' = "panicked"
          ELSE /\ pc' = pc
               /\ \E r \in (IF alea THEN 0..(v - 1) ELSE {v}) :
                     hist' = Append(hist, Called("Int", n, r))
    /\ UNCHANGED <<cs, osArgs, cmdLine, usageCalls, runCalls, helpWired, ret,
                   stdout, stderr, exitCode, similar>>
    /\ UNCHANGED <<sizes, alea, start0, tpc, tix, seen, got, setVars>>

NextSize == CallNext \/ CallInt
SpecSize == InitSize /\ [][NextSize]_vars

----------------------------------------------------------------------------
(* Goroutines calling m.Next() concurrently on one MultiSize. *)
Threads == 1..NThreads
ConcSizes == {<<8>>, <<1, 8, 20>>}

InitConc ==
    /\ CliIdle
    /\ SetIdle
    /\ sizes \in ConcSizes
    /\ alea = FALSE
    /\ curr \in CounterStarts
    /\ start0 = curr
    /\ hist = <<>>
    /\ tpc = [t \in Threads |-> "idle"]
    /\ tix = [t \in Threads |-> curr]
    /\ seen = [t \in Threads |-> <<>>]
    /\ got = [t \in Threads |-> <<>>]

\* Mutant of NextAdd: the increment is a load and a store, another goroutine
\* may run between them.
NextAddRacy(t) ==
    \/ /\ tpc[t] = "idle" /\ Len(seen[t]) < CallsPerThread
       /\ tix' = [tix EXCEPT ![t] = curr]
       /\ tpc' = [tpc EXCEPT ![t] = "store"]
       /\ UNCHANGED <<curr, seen>>
    \/ /\ tpc[t] = "store"
       /\ curr' = AddUint32(tix[t])
       /\ tix' = [tix EXCEPT ![t] = AddUint32(tix[t])]
       /\ seen' = [seen EXCEPT ![t] = Append(@, AddUint32(tix[t]))]
       /\ tpc' = [tpc EXCEPT ![t] = "index"]

\* Line 58 in goroutine t: ix := atomic.AddUint32(&m.curr, 1), one step.
NextAdd(t) ==
    /\ tpc[t] = "idle" /\ Len(seen[t]) < CallsPerThread
    /\ curr' = AddUint32(curr)
    /\ tix' = [tix EXCEPT ![t] = AddUint32(curr)]
    /\ seen' = [seen EXCEPT ![t] = Append(@, AddUint32(curr))]
    /\ tpc' = [tpc EXCEPT ![t] = "index"]

\* Lines 59-60 in goroutine t: the element at ix % len(m.sizes) is returned.
NextIndex(t) ==
    /\ tpc[t] = "index"
    /\ got' = [got EXCEPT ![t] = Append(@, sizes[Mod32(tix[t], Len(sizes)) + 1])]
    /\ tpc' = [tpc EXCEPT ![t] = "idle"]
    /\ UNCHANGED <<curr, tix, seen>>

ThreadAdd == \E t \in Threads : NextAdd(t) /\ UNCHANGED <<cliVars, sizes, alea, start0, hist, got, setVars>>
ThreadIndex == \E t \in Threads : NextIndex(t) /\ UNCHANGED <<cliVars, sizes, alea, start0, hist, setVars>>
NextConc == ThreadAdd \/ ThreadIndex
SpecConc == InitConc /\ [][NextConc]_vars

----------------------------------------------------------------------------
(* Size.Set.  A float64 is kept as m * 2^e with m odd (zero is m = 0): the   *)
(* numbers of the model are dyadic and small, so float64 holds them and      *)
(* their products with the unit factors exactly.                             *)
Normalize(f) ==
    IF f.m = 0 THEN [m |-> 0, e |-> 0]
    ELSE LET k == CHOOSE k \in 0..30 : f.m % (2 ^ k) = 0 /\ (f.m \div (2 ^ k)) % 2 = 1
         IN [m |-> f.m \div (2 ^ k), e |-> f.e + k]

\* float64(n) for an integer n.
Float64(n) == Normalize([m |-> n, e |-> 0])
\* f * g.
Mul(f, g) == Normalize([m |-> f.m * g.m, e |-> f.e + g.e])
\* f / g for g a power of two.
Quo(f, g) == Normalize([m |-> f.m, e |-> f.e - g.e])

RECURSIVE Pow(_, _)
Pow(b, n) == IF n = 0 THEN 1 ELSE b * Pow(b, n - 1)

DigitString == <<"0", "1", "2", "3", "4", "5", "6", "7", "8", "9">>
Digits == Range(DigitString)
SignChars == {"+", "-"}
ExponentChars == {"e", "E", "p", "P"}
SpaceChars == {" "}

\* The number of leading characters of s that are in set: a loop of s.accept.
RECURSIVE Span(_, _)
Span(s, set) == IF s # <<>> /\ s[1] \in set THEN 1 + Span(Tail(s), set) ELSE 0

RECURSIVE SpanNot(_, _)
SpanNot(s, set) == IF s # <<>> /\ s[1] \notin set THEN 1 + SpanNot(Tail(s), set) ELSE 0

Drop(s, n) == SubSeq(s, n + 1, Len(s))
Take(s, n) == SubSeq(s, 1, n)
\* s.accept(set): whether the next character is taken.
Accept(s, set) == s # <<>> /\ s[1] \in set
SkipSpace(s) == Drop(s, Span(s, SpaceChars))

\* What is left of s after an optional sign, after digits, after a period
\* and digits, after an exponent letter with a sign and digits.
AfterSign(s) == IF Accept(s, SignChars) THEN Tail(s) ELSE s
AfterDigits(s) == Drop(s, Span(s, Digits))
AfterFraction(s) == IF Accept(s, {"."}) THEN AfterDigits(Tail(s)) ELSE s
AfterExponent(s) ==
    IF Accept(s, ExponentChars) THEN AfterDigits(AfterSign(Tail(s))) ELSE s

\* The length of the token the %f verb takes from s: a sign, digits, a
\* period and digits, an exponent, each optional.  (The forms NaN, Inf, 0x
\* and the underscore need characters the texts of the model do not have.)
floatToken(s) ==
    Len(s) - Len(AfterExponent(AfterFraction(AfterDigits(AfterSign(s)))))

RECURSIVE DecInt(_)
\* The integer a string of decimal digits denotes.
DecInt(ds) ==
    IF ds = <<>> THEN 0
    ELSE DecInt(Take(ds, Len(ds) - 1)) * 10 + (IndexOf(DigitString, ds[Len(ds)]) - 1)

SyntaxError(fn, str) ==
    Plain(<<"strconv.", fn, ": parsing ", "\"">> \o str \o <<"\"", ": invalid syntax">>)

Negative(str) == Accept(str, {"-"})
AllDigits(ds) == ds # <<>> /\ Span(ds, Digits) = Len(ds)
Unsigned(neg, ds) ==
    [ok |-> AllDigits(ds), n |-> IF ~AllDigits(ds) THEN 0
                                 ELSE IF neg THEN 0 - DecInt(ds) ELSE DecInt(ds)]
\* A decimal integer with an optional sign: [ok, n].
SignedInt(str) == Unsigned(Negative(str), AfterSign(str))

\* The digits of a decimal literal before the period and after it, and its
\* exponent: e or E with a signed integer, or nothing; anything else left
\* over is a syntax error.
IntDigits(s) == Take(s, Span(s, Digits))
FracDigits(s) == IF Accept(s, {"."}) THEN IntDigits(Tail(s)) ELSE <<>>
DecExponent(s) ==
    IF Accept(s, {"e", "E"}) THEN SignedInt(Tail(s)) ELSE [ok |-> s = <<>>, n |-> 0]

\* D * 10^p as a float64.
Scale10(D, p) ==
    IF p >= 0 THEN Float64(D * Pow(10, p))
    ELSE Normalize([m |-> D \div Pow(5, 0 - p), e |-> p])

\* The value of the literal with the digits int and frac and the exponent x.
Decimal(neg, int, frac, x) ==
    IF Len(int) + Len(frac) > 0 /\ x.ok
    THEN [ok |-> TRUE,
          f |-> Scale10(IF neg THEN 0 - DecInt(int \o frac) ELSE DecInt(int \o frac),
                        x.n - Len(frac))]
    ELSE [ok |-> FALSE, f |-> Float64(0)]

\* strconv.ParseFloat(str, 64) on a decimal literal: [ok, f].
ParseFloat(str) ==
    Decimal(Negative(str), IntDigits(AfterSign(str)),
            FracDigits(AfterDigits(AfterSign(str))),
            DecExponent(AfterFraction(AfterDigits(AfterSign(str)))))

\* math.Ldexp(f, x) for the number and the exponent of a token with a p.
Ldexp(str, f, x) ==
    IF ~f.ok THEN [err |-> SyntaxError("ParseFloat", str), f |-> Float64(0)]
    ELSE IF ~x.ok THEN [err |-> SyntaxError("Atoi", str), f |-> Float64(0)]
    ELSE [err |-> Nil, f |-> Normalize([m |-> f.f.m, e |-> f.f.e + x.n])]

Checked(str, f) ==
    IF f.ok THEN [err |-> Nil, f |-> f.f]
    ELSE [err |-> SyntaxError("ParseFloat", str), f |-> Float64(0)]

\* s.convertFloat(str, 64): [err, f].  A token with a p is a decimal number
\* and a power of two (1.2p4), any other goes to strconv.ParseFloat.
convertFloat(str) ==
    IF IndexOf(str, "p") > 0
    THEN Ldexp(str, ParseFloat(Take(str, IndexOf(str, "p") - 1)),
               SignedInt(Drop(str, IndexOf(str, "p"))))
    ELSE Checked(str, ParseFloat(str))

ErrUnexpectedEOF == Plain(<<"unexpected EOF">>)

\* The %s verb on the rest s of the text, after %f gave c: it skips spaces,
\* fails at the end of the text and takes the characters up to the next
\* space.  A failure leaves the operands not yet scanned as they were.
ScanString(c, s) ==
    IF c.err # Nil THEN [n |-> 0, err |-> c.err, f |-> Float64(0), u |-> <<>>]
    ELSE IF s = <<>> THEN [n |-> 1, err |-> ErrUnexpectedEOF, f |-> c.f, u |-> <<>>]
    ELSE [n |-> 2, err |-> Nil, f |-> c.f, u |-> Take(s, SpanNot(s, SpaceChars))]

\* The %f verb on the text s, spaces skipped, then the %s verb.
ScanFloat(s) ==
    IF s = <<>> THEN [n |-> 0, err |-> ErrUnexpectedEOF, f |-> Float64(0), u |-> <<>>]
    ELSE ScanString(convertFloat(Take(s, floatToken(s))),
                    SkipSpace(Drop(s, floatToken(s))))

\* fmt.Sscanf(v, "%f%s", &f, &u): [n, err, f, u].
Sscanf(v) == ScanFloat(SkipSpace(v))

\* The switch on the suffix u for the number f, on a Size of value s.
SetUnit(s, f, u) ==
    CASE u \in {<<>>, <<"B">>} -> [size |-> f, err |-> Nil]
      [] u = <<"b">> -> [size |-> Quo(f, Float64(8)), err |-> Nil]
      [] u \in {<<"K", "B">>, <<"K">>} -> [size |-> Mul(f, Float64(1024)), err |-> Nil]
      [] u \in {<<"k", "b">>, <<"k">>} ->
            [size |-> Mul(f, Float64(1024 \div 8)), err |-> Nil]
      [] u \in {<<"M", "B">>, <<"M">>} ->
            [size |-> Mul(f, Float64(1024 * 1024)), err |-> Nil]
      [] u \in {<<"m", "b">>, <<"m">>} ->
            [size |-> Mul(f, Float64((1024 * 1024) \div 8)), err |-> Nil]
      [] u \in {<<"G", "B">>, <<"G">>} ->
            [size |-> Mul(f, Float64(1024 * 1024 * 1024)), err |-> Nil]
      [] u \in {<<"g", "b">>, <<"g">>} ->
            [size |-> Mul(f, Float64((1024 * 1024 * 1024) \div 8)), err |-> Nil]
      [] OTHER -> [size |-> s, err |-> Plain(<<"unknown unit given ">> \o u)]

\* Lines 104-107: the scan, and the return when nothing was scanned.
Scanned(s, r) ==
    IF r.err # Nil /\ r.n = 0 THEN [size |-> s, err |-> r.err]
    ELSE SetUnit(s, r.f, r.u)

\* s.Set(v) on a Size of value s: [size, err].
SizeSet(s, v) == Scanned(s, Sscanf(v))

\* The texts Set is called with: a number and a suffix, a space between them
\* for one of the numbers, and three texts that do not start with a number.
N_1 == <<"1">>
N_5 == <<"5">>
N_512 == <<"5", "1", "2">>
N_half == <<"0", ".", "5">>
N_1e1 == <<"1", "e", "1">>
NumberPool == {[s |-> N_1, v |-> Float64(1)], [s |-> N_5, v |-> Float64(5)],
               [s |-> N_512, v |-> Float64(512)],
               [s |-> N_half, v |-> [m |-> 1, e |-> 0 - 1]],
               [s |-> N_1e1, v |-> Float64(10)]}
\* The suffixes of the grammar: 1024^n bytes, or bits when bit = 1.
Unit(u, n, bit) == [u |-> u, n |-> n, bit |-> bit]
UnitPool == {Unit(<<>>, 0, 0), Unit(<<"B">>, 0, 0), Unit(<<"b">>, 0, 1),
             Unit(<<"K">>, 1, 0), Unit(<<"K", "B">>, 1, 0),
             Unit(<<"k">>, 1, 1), Unit(<<"k", "b">>, 1, 1),
             Unit(<<"M">>, 2, 0), Unit(<<"M", "B">>, 2, 0),
             Unit(<<"m">>, 2, 1), Unit(<<"m", "b">>, 2, 1),
             Unit(<<"G">>, 3, 0), Unit(<<"G", "B">>, 3, 0),
             Unit(<<"g">>, 3, 1), Unit(<<"g", "b">>, 3, 1)}
Units == {x.u : x \in UnitPool}
OtherSuffixes == {<<"X", "B">>, <<"T", "B">>, <<"k", "B">>, <<"K", "b">>,
                  <<"B", "B">>, <<"E", "B">>, <<"P", "B">>, <<"p", "b">>}
Suffixes == Units \cup OtherSuffixes
SetTexts == {n.s \o u : n \in NumberPool, u \in Suffixes}
                \cup {N_5 \o <<" ">> \o u : u \in Suffixes}
                \cup {<<>>, <<"K", "B">>, <<".">>}
SizeStarts == {Float64(0), Float64(3)}

InitSet ==
    /\ CliIdle
    /\ SizeIdle
    /\ size \in SizeStarts
    /\ setCall = <<>>

\* The application calls s.Set(v).
CallSet ==
    /\ Len(setCall) < MaxSets
    /\ \E v \in SetTexts :
          LET r == SizeSet(size, v) IN
          /\ size' = r.size
          /\ setCall' = Append(setCall, [text |-> v, old |-> size,
                                         new |-> r.size, err |-> r.err])
    /\ UNCHANGED <<cliVars, sizeVars>>

NextSet == CallSet
SpecSet == InitSet /\ [][NextSet]_vars

----------------------------------------------------------------------------
(* Properties of the dispatcher. *)

\* The invocation as the global flag set reads it.
Parsed == Parse(osArgs, GlobalFlags)
ParseOk == Parsed.err = <<>>
VersionFlag == W_v \in Parsed.flags \/ W_version \in Parsed.flags
HasToken == ParseOk /\ Len(Parsed.args) > 0
Token == Parsed.args[1]
Dispatched == pc # "start" /\ entry \in {"Run", "RunAndExit"}

\* Every canonical name and alias of the registry, in order.
RECURSIVE Keys(_, _)
Keys(registry, k) ==
    IF k = 0 THEN <<>>
    ELSE Keys(registry, k - 1) \o <<String(registry[k])>> \o registry[k].Alias
DistinctKeys(registry) == Injective(Keys(registry, Len(registry)))

Owns(c, tok) == tok = String(c) \/ tok \in Range(c.Alias)
Matched(registry, tok) ==
    \E i \in 1..Len(registry) : Runnable(registry[i]) /\ Owns(registry[i], tok)

\* Run called exactly the run function of the command at index i, with args,
\* and returned what that function returned.
RanOnly(i, args) ==
    /\ pc # "panicked"
    /\ Len(runCalls) = 1
    /\ runCalls[1].cmd = i
    /\ runCalls[1].args = args
    /\ ret = runCalls[1].err
    /\ entry = "Run" => pc = "returned"

\* C1 as stated: in a registry with pairwise distinct names and aliases, a
\* first positional token that is the canonical name or an alias of a
\* runnable command c makes Run call exactly c's run function, once, with
\* the tokens after it, and return its error unchanged.
C1_AsStated ==
    (Dispatched /\ HasToken /\ DistinctKeys(cs)) =>
        \A i \in 1..Len(cs) :
            (Runnable(cs[i]) /\ Owns(cs[i], Token)) => RanOnly(i, Tail(Parsed.args))

\* C1 amended: the same, when neither -v nor --version is set and the token
\* is neither help nor version.
C1_NameOrAliasRunsOwner ==
    (Dispatched /\ HasToken /\ DistinctKeys(cs) /\ ~VersionFlag
        /\ Token \notin {W_help, W_version}) =>
        \A i \in 1..Len(cs) :
            (Runnable(cs[i]) /\ Owns(cs[i], Token)) => RanOnly(i, Tail(Parsed.args))

\* C1 witness: Run was entered with an alias of a command that is not the
\* first of a registry of distinct keys, other tokens following, and returned
\* the error of that command's run function.
C1_Witness ==
    /\ entry = "Run" /\ pc = "returned"
    /\ HasToken /\ DistinctKeys(cs) /\ ~VersionFlag
    /\ Len(cs) = 2 /\ cs[2] = CmdBuild /\ Token = W_b
    /\ Len(Parsed.args) = 2
    /\ RanOnly(2, Tail(Parsed.args))
    /\ ret # Nil

\* C2 as stated: when parsing succeeds and the first positional token is no
\* name or alias of a runnable command (nor help, nor version), Run calls no
\* run function and returns the suggestion error carrying that token.
C2_AsStated ==
    (Dispatched /\ HasToken /\ ~Matched(cs, Token)
        /\ Token \notin {W_help, W_version}) =>
        /\ runCalls = <<>>
        /\ ret = Suggest(Token)
        /\ pc # "panicked"

\* C2 amended: the same, when neither -v nor --version is set.
C2_UnmatchedSuggests ==
    (Dispatched /\ HasToken /\ ~Matched(cs, Token) /\ ~VersionFlag
        /\ Token \notin {W_help, W_version}) =>
        /\ runCalls = <<>>
        /\ ret = Suggest(Token)
        /\ pc # "panicked"

\* C2 witness: an unmatched token, a registry with a runnable default
\* command, and Run returned the suggestion error without calling it.
C2_Witness ==
    /\ entry = "Run" /\ pc = "returned"
    /\ HasToken /\ ~VersionFlag /\ Token = W_buld
    /\ \E i \in 1..Len(cs) : cs[i].Default /\ Runnable(cs[i])
    /\ runCalls = <<>>
    /\ ret = Suggest(W_buld)

HasDefault(registry) == \E i \in 1..Len(registry) : registry[i].Default
FirstDefault(registry) ==
    CHOOSE i \in 1..Len(registry) :
        registry[i].Default /\ \A j \in 1..(i - 1) : ~registry[j].Default

\* C3: when parsing fails on an undefined flag, Run calls the default
\* command's run function once with os.Args[1:] and returns its error, or,
\* without a default command, calls nothing and returns an error; on any
\* other parse failure it calls nothing and returns the parse error.
C3_DefaultOnUnknownFlag ==
    (Dispatched /\ ~ParseOk) =>
        IF HasPrefix(Parsed.err, ErrUndefinedPrefix)
        THEN IF HasDefault(cs)
             THEN RanOnly(FirstDefault(cs), osArgs)
             ELSE runCalls = <<>> /\ ret # Nil /\ pc # "panicked"
        ELSE runCalls = <<>> /\ ret = Plain(Parsed.err) /\ pc # "panicked"

\* C4: with -v or --version set, or with version as first positional token,
\* Run prints the version line, returns nil and calls no run function.
C4_VersionFirst ==
    (Dispatched /\ ParseOk /\ (VersionFlag \/ (HasToken /\ Token = W_version))) =>
        /\ stdout = <<VersionLine>>
        /\ ret = Nil
        /\ runCalls = <<>>
        /\ entry = "Run" => pc = "returned"

Translated == entry = "RunAndExit" /\ pc # "start" /\ ret # Nil

\* The error an exit error of the chain wraps.
Inner(err) == SubSeq(err, As(err, "exit") + 1, Len(err))

\* C5 as stated: an error of the dispatcher that is or unwraps to an exit
\* error with code c and underlying error e makes RunAndExit print e's
\* message and exit with c; every other error exits with 1.
C5_AsStated ==
    Translated =>
        /\ pc = "exited"
        /\ IF As(ret, "exit") > 0
           THEN exitCode = ret[As(ret, "exit")].code
                /\ stderr[1] = ErrorText(Inner(ret))
           ELSE exitCode = BadExitCode

\* C5 amended: the same for the errors with no suggestion error in their
\* chain; an error with one exits with 1 like every other error.
C5_ExitCodeHonoured ==
    Translated =>
        /\ pc = "exited"
        /\ IF As(ret, "exit") > 0 /\ As(ret, "suggest") = 0
           THEN exitCode = ret[As(ret, "exit")].code
                /\ stderr = <<ErrorText(Inner(ret))>>
           ELSE exitCode = BadExitCode

\* C5 witness: the run function returned a wrapped cli.Exit("disk full", 7),
\* and the process printed disk full and exited with 7.
C5_Witness ==
    /\ entry = "RunAndExit" /\ pc = "exited"
    /\ ret = Wrap(<<"push: disk full">>, Exit(DiskFull, 7))
    /\ exitCode = 7
    /\ stderr = <<<<"disk full">>>>

\* C6: RunAndExit never returns to its caller.
C6_NeverReturns == entry = "RunAndExit" => pc # "returned"

\* The eligible commands of Similar and their rank: by distance to the token,
\* then by place in the registry.
Eligible(registry, tok) ==
    {i \in 1..Len(registry) : Runnable(registry[i]) /\ String(registry[i]) # tok}
Before(registry, tok, j, i) ==
    LET dj == EditDistance(tok, String(registry[j]))
        di == EditDistance(tok, String(registry[i]))
    IN dj < di \/ (dj = di /\ j < i)
Rank(registry, tok, i) ==
    1 + Cardinality({j \in Eligible(registry, tok) : Before(registry, tok, j, i)})

Ranked(list, registry, tok) ==
    /\ Len(list) = Cardinality(Eligible(registry, tok))
    /\ \A i \in Eligible(registry, tok) :
          list[Rank(registry, tok, i)] = String(registry[i])

CmdBundle == Command(W_bundle, <<>>, FALSE, TRUE)

\* C10: Similar returns the canonical names of the runnable commands other
\* than the token, ascending by edit distance to it, ties in registry order
\* (build, bundle, push for the token buld).
C10_SimilarRanked ==
    /\ (entry = "Similar" /\ pc = "returned")
          => Ranked(similar, cs, ret[1].cmd)
    /\ Similar(W_buld, <<CmdBuild, CmdBundle, Command(W_push, <<>>, FALSE, TRUE)>>)
          = <<W_build, W_bundle, W_push>>

\* C10 witness: Similar was called with the token b on a registry of three
\* entries, one of which cannot run, and returned the two runnable names,
\* the nearer one first though it is the later entry.
C10_Witness ==
    /\ entry = "Similar" /\ pc = "returned"
    /\ cs = <<CmdVersion, CmdDoc, CmdBuild>>
    /\ ret = Suggest(W_b)
    /\ similar = <<W_build, W_version>>

\* C12: on every dispatch path (name, alias, default command after an
\* unknown flag) only the run function of a runnable command is called: Run
\* never ends by calling an absent run function, and every call it made is
\* that of a registry entry that has one.
C12_OnlyRunnable ==
    Dispatched =>
        /\ pc # "panicked"
        /\ \A k \in 1..Len(runCalls) : Runnable(cs[runCalls[k].cmd])

----------------------------------------------------------------------------
(* Properties of MultiSize. *)
RECURSIVE AddN(_, _)
\* The counter c after k increments.
AddN(c, k) == IF k = 0 THEN c ELSE AddUint32(AddN(c, k - 1))

N == Len(sizes)
Zero32 == Counter(0, 0)

\* 2^32 is a multiple of n.
Divides32(n) == ((Half % n) * (Half % n)) % n = 0

\* Call k incremented the counter once and returned the element at index
\* (counter mod n).
PerCall(k) ==
    /\ hist[k].ix = AddN(start0, k)
    /\ hist[k].idx = Mod32(hist[k].ix, N)
    /\ hist[k].val = sizes[hist[k].idx + 1]
    /\ hist[k].op = "Next" => hist[k].out = hist[k].val

\* Calls k and k + 1 returned neighbours of the cycle.
Cyclic(k) == hist[k + 1].idx = (hist[k].idx + 1) % N

\* The n calls from call k on returned each element once.
EachOnce(k) == {hist[j].idx : j \in k..(k + N - 1)} = 0..(N - 1)

\* The counter wrapped from 2^32 - 1 to 0 between calls k and k + 1.
WrapsAfter(k) == hist[k + 1].ix = Zero32

\* C7 as stated: on a non-empty sequence of n sizes every call increments
\* the counter by one and returns the element at index (counter mod n), and
\* any n consecutive calls return each element once in cyclic order, the
\* wrap of the 32-bit counter included.
C7_AsStated ==
    (entry \in {"none", "Next", "Int"} /\ N > 0) =>
        /\ \A k \in 1..Len(hist) : PerCall(k)
        /\ \A k \in 1..(Len(hist) - 1) : Cyclic(k)
        /\ \A k \in 1..(Len(hist) - N + 1) : EachOnce(k)

\* C7 amended: the same for the calls between which the counter does not
\* wrap from 2^32 - 1 to 0, and for all calls when n divides 2^32.
C7_RoundRobin ==
    (entry \in {"none", "Next", "Int"} /\ N > 0) =>
        /\ \A k \in 1..Len(hist) : PerCall(k)
        /\ \A k \in 1..(Len(hist) - 1) :
              (Divides32(N) \/ ~WrapsAfter(k)) => Cyclic(k)
        /\ \A k \in 1..(Len(hist) - N + 1) :
              (Divides32(N) \/ \A j \in k..(k + N - 2) : ~WrapsAfter(j)) => EachOnce(k)

\* C7 witness: four calls on 1b,1B,2.5B from a counter of 0 returned 1B,
\* 2.5B, 1b, 1B.
C7_Witness ==
    /\ sizes = <<1, 8, 20>> /\ start0 = Zero32 /\ Len(hist) = 4
    /\ [k \in 1..4 |-> hist[k].val] = <<8, 20, 1, 8>>
    /\ \A k \in 1..4 : hist[k].op = "Next" /\ hist[k].out = hist[k].val

RECURSIVE SumLen(_, _)
SumLen(f, k) == IF k = 0 THEN 0 ELSE Len(f[k]) + SumLen(f, k - 1)
Adds == SumLen(seen, NThreads)
Completed == SumLen(got, NThreads)
Observed == UNION {Range(seen[t]) : t \in Threads}

\* C8: under every interleaving of Next() calls of several goroutines no
\* increment is lost and no two calls observe the same counter value: the
\* counter has advanced by the number of increments made, which is the
\* number of completed calls once no call is under way, and the values
\* observed are that many distinct consecutive values.
C8_NoLostIncrement ==
    tpc # <<>> =>
        /\ curr = AddN(start0, Adds)
        /\ Cardinality(Observed) = Adds
        /\ Observed = {AddN(start0, j) : j \in 1..Adds}
        /\ (\A t \in Threads : tpc[t] = "idle") => curr = AddN(start0, Completed)

\* C8 witness: every goroutine completed all its calls, the counter wrapped
\* on the way, and goroutine 2 made the first increment and goroutine 1 the
\* second, before goroutine 2 read its element.
C8_Witness ==
    /\ tpc # <<>> /\ \A t \in Threads : tpc[t] = "idle"
    /\ Completed = NThreads * CallsPerThread
    /\ start0 = Counter(Half - 1, Half - 2)
    /\ seen[2][1] = AddN(start0, 1) /\ seen[1][1] = AddN(start0, 2)
    /\ curr = Counter(0, NThreads * CallsPerThread - 2)

\* C9: Int() advances the counter once per call and, for every size Set
\* accepts, returns the element's bytes truncated (sequential mode) or an
\* integer r with 0 <= r < bytes (random mode), without failing.
C9_IntInRange ==
    (entry = "Int" /\ N > 0) =>
        /\ pc # "panicked"
        /\ curr = AddN(start0, Len(hist))
        /\ \A k \in 1..Len(hist) :
              hist[k].op = "Int" =>
                IF alea THEN 0 <= hist[k].out /\ hist[k].out * 8 < hist[k].val
                ELSE hist[k].out = SizeInt(hist[k].val)

----------------------------------------------------------------------------
(* Properties of Size.Set. *)

\* The factor of a suffix of the grammar: 1024^n, over 8 for bits.
Factor(x) ==
    IF x.bit = 1 THEN Quo(Float64(Pow(1024, x.n)), Float64(8))
    ELSE Float64(Pow(1024, x.n))

\* The text sub occurs in the message.
Contains(msg, sub) ==
    \E i \in 0..(Len(msg) - Len(sub)) : SubSeq(msg, i + 1, i + Len(sub)) = sub
Names(err, suffix) == err # Nil /\ Contains(ErrorText(err), suffix)

T_512KB == N_512 \o <<"K", "B">>
T_1b == N_1 \o <<"b">>
T_5XB == N_5 \o <<"X", "B">>

\* C11: Set on a text <number><suffix> returns no error and stores number
\* times the factor of the suffix when the suffix is one of the grammar
\* (512KB gives 524288 bytes, 1b gives 0.125 bytes); for any other suffix it
\* returns an error whose message names that suffix and leaves the Size as it
\* was.
C11_SetScales ==
    \A k \in 1..Len(setCall) :
        LET c == setCall[k] IN
        /\ \A num \in NumberPool, suf \in Suffixes :
              c.text = num.s \o suf =>
                /\ \A x \in UnitPool :
                      x.u = suf => c.err = Nil /\ c.new = Mul(num.v, Factor(x))
                /\ suf \notin Units => Names(c.err, suf) /\ c.new = c.old
        /\ c.text = T_512KB => c.new = Float64(524288)
        /\ c.text = T_1b => c.new = [m |-> 1, e |-> 0 - 3]
        /\ c.text = T_5XB => Names(c.err, <<"X", "B">>)

====
